---------------------------- MODULE Spec2Model ----------------------------
(***************************************************************************)
(* String analyser service (src/app.js).                                   *)
(*                                                                         *)
(* src/app.js holds the service twice: a first variant that keys the       *)
(* in-memory store by the SHA-256 digest of the value (lines 1-295) and a  *)
(* second variant that keys it by the trimmed value itself (lines          *)
(* 296-659).  Both are modelled; the variable `variant` says which one a   *)
(* behaviour runs.                                                         *)
(*                                                                         *)
(* A JavaScript string is modelled as a sequence of code points, each code *)
(* point being a one-character TLA+ string ("a", " ", "!") or the token    *)
(* "U+1F600" for a character outside the Basic Multilingual Plane, which   *)
(* JavaScript stores as two UTF-16 code units.                             *)
(***************************************************************************)
EXTENDS Integers, Sequences, FiniteSets, TLC

VARIABLES variant, stringStore, clock, resp

vars == <<variant, stringStore, clock, resp>>

-----------------------------------------------------------------------------
(* Characters *)

UpperCase == <<"A", "B", "C", "D", "E", "F", "G", "H", "I", "J", "K", "L", "M",
               "N", "O", "P", "Q", "R", "S", "T", "U", "V", "W", "X", "Y", "Z">>
LowerCase == <<"a", "b", "c", "d", "e", "f", "g", "h", "i", "j", "k", "l", "m",
               "n", "o", "p", "q", "r", "s", "t", "u", "v", "w", "x", "y", "z">>
Digits == <<"0", "1", "2", "3", "4", "5", "6", "7", "8", "9">>

Range(s) == {s[i] : i \in 1..Len(s)}

\* Characters outside the BMP: one code point, two UTF-16 code units.
AstralChars == {"U+1F600"}

\* The white space String.prototype.trim removes and \s matches.
WhiteSpace == {" ", "\t"}

LowerAlnumChars == Range(LowerCase) \cup Range(Digits)

DigitChars == Range(Digits)

\* \w of a JavaScript regular expression: [A-Za-z0-9_].
WordChars == Range(LowerCase) \cup Range(UpperCase) \cup Range(Digits) \cup {"_"}

\* [a-z0-9]
IsLowerAlnum(c) == c \in LowerAlnumChars

\* \d
IsDigit(c) == c \in DigitChars

IsWordChar(c) == c \in WordChars

DigitValue(c) == (CHOOSE i \in 1..Len(Digits) : Digits[i] = c) - 1

UpperChars == Range(UpperCase)

\* KELVIN SIGN, a letter outside ASCII whose lower case is the ASCII "k".
KelvinSign == "U+212A"

ToLowerChar(c) ==
    IF c \in UpperChars
    THEN LowerCase[CHOOSE i \in 1..Len(UpperCase) : UpperCase[i] = c]
    ELSE IF c = KelvinSign THEN "k"
    ELSE c

\* Number of UTF-16 code units of one code point.
CodeUnits(c) == IF c \in AstralChars THEN 2 ELSE 1

-----------------------------------------------------------------------------
(* String primitives of the JavaScript runtime, as the source uses them *)

\* String.prototype.toLowerCase
ToLowerCase(s) == [i \in 1..Len(s) |-> ToLowerChar(s[i])]

\* String.prototype.trim
RECURSIVE TrimStart(_)
TrimStart(s) ==
    IF s # <<>> /\ Head(s) \in WhiteSpace THEN TrimStart(Tail(s)) ELSE s

RECURSIVE TrimEnd(_)
TrimEnd(s) ==
    IF s # <<>> /\ s[Len(s)] \in WhiteSpace
    THEN TrimEnd(SubSeq(s, 1, Len(s) - 1))
    ELSE s

Trim(s) == TrimEnd(TrimStart(s))

\* String.prototype.length: the number of UTF-16 code units.
RECURSIVE StrLength(_)
StrLength(s) ==
    IF s = <<>> THEN 0 ELSE CodeUnits(Head(s)) + StrLength(Tail(s))

\* split("").reverse().join("")
Reverse(s) == [i \in 1..Len(s) |-> s[Len(s) + 1 - i]]

\* String.prototype.includes
Includes(s, t) ==
    \E i \in 0..(Len(s) - Len(t)) : SubSeq(s, i + 1, i + Len(t)) = t

\* crypto.createHash('sha256').update(value).digest('hex').  The digest is
\* kept abstract: a string no value equals, different for different values
\* (the service relies on nothing else).
Sha256Hex(value) == <<"sha256">> \o value

-----------------------------------------------------------------------------
(* analyzeString *)

\* for (const char of value) map[char] = (map[char] || 0) + 1, the loop of
\* app.js:337-340, from position i on with the map m built so far.  The
\* for-of loop walks code points.
RECURSIVE FrequencyLoop(_, _, _)
FrequencyLoop(value, i, m) ==
    IF i > Len(value) THEN m
    ELSE LET char == value[i]
             old  == IF char \in DOMAIN m THEN m[char] ELSE 0
         IN  FrequencyLoop(value, i + 1,
                 [c \in DOMAIN m \cup {char} |-> IF c = char THEN old + 1 ELSE m[c]])

EmptyMap == [c \in {} |-> 0]

\* value.match(/\S+/g): the number of maximal runs of non-white-space.
WordMatches(value) ==
    Cardinality({i \in 1..Len(value) :
        /\ value[i] \notin WhiteSpace
        /\ (i = 1 \/ value[i - 1] \in WhiteSpace)})

SanitizedString(value) == SelectSeq(ToLowerCase(value), IsLowerAlnum)

\* IsPalindrome without the test that the sanitized string is not empty.
IsPalindromeAllowEmpty(value) ==
    LET sanitizedString == SanitizedString(value)
        reversedString  == Reverse(sanitizedString)
    IN  sanitizedString = reversedString

IsPalindrome(value) ==
    LET sanitizedString == SanitizedString(value)
        reversedString  == Reverse(sanitizedString)
    IN  sanitizedString = reversedString /\ Len(sanitizedString) > 0

analyzeString(value, now) ==
    LET map == FrequencyLoop(value, 1, EmptyMap)
    IN  [ id         |-> Sha256Hex(value),
          value      |-> value,
          properties |->
            [ length                  |-> StrLength(value),
              sha256_hash             |-> Sha256Hex(value),
              is_palindrome           |-> IsPalindrome(value),
              character_frequency_map |-> map,
              unique_characters       |-> Cardinality(DOMAIN map),
              word_count              |-> WordMatches(value) ],
          created_at |-> now ]

-----------------------------------------------------------------------------
(* JavaScript values that reach the filters: query-string parameters are   *)
(* strings, the natural-language parser produces booleans, numbers and     *)
(* one-character strings.                                                  *)

JsString(s) == [t |-> "string", s |-> s, n |-> 0, b |-> FALSE]
JsNumber(n) == [t |-> "number", s |-> <<>>, n |-> n, b |-> FALSE]
JsBoolean(b) == [t |-> "boolean", s |-> <<>>, n |-> 0, b |-> b]

RECURSIVE NatToString(_)
NatToString(n) ==
    IF n < 10 THEN <<Digits[n + 1]>>
    ELSE NatToString(n \div 10) \o <<Digits[(n % 10) + 1]>>

\* String(x)
StringOf(v) ==
    CASE v.t = "string"  -> v.s
      [] v.t = "number"  -> IF v.n < 0 THEN <<"-">> \o NatToString(-v.n)
                            ELSE NatToString(v.n)
      [] v.t = "boolean" -> IF v.b THEN <<"t", "r", "u", "e">>
                            ELSE <<"f", "a", "l", "s", "e">>

\* The value of the longest run of decimal digits s starts with, given the
\* value acc of the digits read so far.
RECURSIVE DigitsValue(_, _)
DigitsValue(s, acc) ==
    IF s # <<>> /\ IsDigit(Head(s))
    THEN DigitsValue(Tail(s), acc * 10 + DigitValue(Head(s)))
    ELSE acc

NaN == [nan |-> TRUE, n |-> 0]

\* parseInt(x, 10): String(x), leading white space skipped, an optional
\* sign, then the longest run of digits; NaN when there is no digit.
ParseInt(v) ==
    LET s      == TrimStart(StringOf(v))
        signed == s # <<>> /\ Head(s) \in {"+", "-"}
        body   == IF signed THEN Tail(s) ELSE s
    IN  IF body = <<>> \/ ~IsDigit(Head(body)) THEN NaN
        ELSE [nan |-> FALSE,
              n   |-> IF signed /\ Head(s) = "-"
                      THEN -DigitsValue(body, 0) ELSE DigitsValue(body, 0)]

\* A filter object: each of the five properties is undefined ({}) or holds
\* one value ({v}).
NoFilters ==
    [ is_palindrome |-> {}, min_length |-> {}, max_length |-> {},
      word_count |-> {}, contains_character |-> {} ]

FilterNames ==
    {"is_palindrome", "min_length", "max_length", "word_count", "contains_character"}

Defined(x) == x # {}

ValueOf(x) == CHOOSE v \in x : TRUE

\* Object.keys(filters).length
KeyCount(filters) == Cardinality({f \in FilterNames : Defined(filters[f])})

-----------------------------------------------------------------------------
(* The store: const stringStore = {}, a plain object.  It is modelled as   *)
(* the sequence of its own properties, <<key, record>> entries in the      *)
(* order Object.values walks them: array-index keys in ascending numeric   *)
(* order first, then the other keys in insertion order.  A plain object    *)
(* also inherits the properties of Object.prototype.                       *)

ObjectPrototypeKeys ==
    { <<"c", "o", "n", "s", "t", "r", "u", "c", "t", "o", "r">>,
      <<"t", "o", "S", "t", "r", "i", "n", "g">>,
      <<"t", "o", "L", "o", "c", "a", "l", "e", "S", "t", "r", "i", "n", "g">>,
      <<"v", "a", "l", "u", "e", "O", "f">>,
      <<"h", "a", "s", "O", "w", "n", "P", "r", "o", "p", "e", "r", "t", "y">>,
      <<"i", "s", "P", "r", "o", "t", "o", "t", "y", "p", "e", "O", "f">>,
      <<"p", "r", "o", "p", "e", "r", "t", "y", "I", "s", "E", "n", "u", "m", "e", "r", "a", "b", "l", "e">>,
      <<"_", "_", "p", "r", "o", "t", "o", "_", "_">>,
      <<"_", "_", "d", "e", "f", "i", "n", "e", "G", "e", "t", "t", "e", "r", "_", "_">>,
      <<"_", "_", "d", "e", "f", "i", "n", "e", "S", "e", "t", "t", "e", "r", "_", "_">>,
      <<"_", "_", "l", "o", "o", "k", "u", "p", "G", "e", "t", "t", "e", "r", "_", "_">>,
      <<"_", "_", "l", "o", "o", "k", "u", "p", "S", "e", "t", "t", "e", "r", "_", "_">> }

\* Same-length digit strings, compared as numbers.
RECURSIVE DigitsLess(_, _)
DigitsLess(a, b) ==
    /\ a # <<>>
    /\ \/ DigitValue(Head(a)) < DigitValue(Head(b))
       \/ Head(a) = Head(b) /\ DigitsLess(Tail(a), Tail(b))

NumericLess(a, b) == Len(a) < Len(b) \/ (Len(a) = Len(b) /\ DigitsLess(a, b))

MaxArrayIndex == <<"4", "2", "9", "4", "9", "6", "7", "2", "9", "4">>

\* A canonical numeric string below 2^32 - 1.
IsArrayIndex(key) ==
    /\ key # <<>>
    /\ \A i \in 1..Len(key) : IsDigit(key[i])
    /\ (Len(key) > 1 => key[1] # "0")
    /\ (key = MaxArrayIndex \/ NumericLess(key, MaxArrayIndex))

OwnKeys(store) == {store[i][1] : i \in 1..Len(store)}

HasOwn(store, key) == key \in OwnKeys(store)

IndexOf(store, key) == CHOOSE i \in 1..Len(store) : store[i][1] = key

\* Object.values(stringStore)
ObjectValues(store) == [i \in 1..Len(store) |-> store[i][2]]

\* Whether stringStore[key] is truthy: an own record, or a property
\* inherited from Object.prototype (a function, or the prototype itself).
Truthy(store, key) == HasOwn(store, key) \/ key \in ObjectPrototypeKeys

\* Where a new own property `key` goes in the order of the properties.
InsertAt(store, key) ==
    IF IsArrayIndex(key)
    THEN Cardinality({i \in 1..Len(store) :
             IsArrayIndex(store[i][1]) /\ NumericLess(store[i][1], key)}) + 1
    ELSE Len(store) + 1

\* stringStore[key] = record.  (No handler assigns under an inherited key:
\* the existence check before it is then true.)
Assign(store, key, record) ==
    IF HasOwn(store, key)
    THEN [store EXCEPT ![IndexOf(store, key)] = <<key, record>>]
    ELSE LET p == InsertAt(store, key)
         IN  SubSeq(store, 1, p - 1) \o <<<<key, record>>>> \o SubSeq(store, p, Len(store))

\* delete stringStore[key]: removes an own property, nothing otherwise.
DeleteKey(store, key) ==
    IF HasOwn(store, key)
    THEN LET p == IndexOf(store, key)
         IN  SubSeq(store, 1, p - 1) \o SubSeq(store, p + 1, Len(store))
    ELSE store

-----------------------------------------------------------------------------
(* applyFilters (app.js:113-153 and 428-474, the same code twice) *)

\* JavaScript truthiness of a filter value.
IsTruthy(v) ==
    CASE v.t = "string"  -> v.s # <<>>
      [] v.t = "number"  -> v.n # 0
      [] v.t = "boolean" -> v.b

w_true == <<"t", "r", "u", "e">>
w_false == <<"f", "a", "l", "s", "e">>

FilterPalindrome(results, filters) ==
    IF Defined(filters.is_palindrome)
    THEN LET isPalindrome == ToLowerCase(StringOf(ValueOf(filters.is_palindrome))) = w_true
             Keep(item)   == item.properties.is_palindrome = isPalindrome
         IN  SelectSeq(results, Keep)
    ELSE results

FilterMinLength(results, filters) ==
    IF Defined(filters.min_length)
    THEN LET minLength  == ParseInt(ValueOf(filters.min_length))
             Keep(item) == item.properties.length >= minLength.n
         IN  IF ~minLength.nan THEN SelectSeq(results, Keep) ELSE results
    ELSE results

\* FilterMaxLength keeping only the records strictly shorter than max_length.
FilterMaxLengthStrict(results, filters) ==
    IF Defined(filters.max_length)
    THEN LET maxLength  == ParseInt(ValueOf(filters.max_length))
             Keep(item) == item.properties.length < maxLength.n
         IN  IF ~maxLength.nan THEN SelectSeq(results, Keep) ELSE results
    ELSE results

FilterMaxLength(results, filters) ==
    IF Defined(filters.max_length)
    THEN LET maxLength  == ParseInt(ValueOf(filters.max_length))
             Keep(item) == item.properties.length <= maxLength.n
         IN  IF ~maxLength.nan THEN SelectSeq(results, Keep) ELSE results
    ELSE results

FilterWordCount(results, filters) ==
    IF Defined(filters.word_count)
    THEN LET wordCount  == ParseInt(ValueOf(filters.word_count))
             Keep(item) == item.properties.word_count = wordCount.n
         IN  IF ~wordCount.nan THEN SelectSeq(results, Keep) ELSE results
    ELSE results

FilterContains(results, filters) ==
    IF Defined(filters.contains_character) /\ IsTruthy(ValueOf(filters.contains_character))
    THEN LET char       == StringOf(ValueOf(filters.contains_character))
             Keep(item) == Includes(ToLowerCase(item.value), ToLowerCase(char))
         IN  SelectSeq(results, Keep)
    ELSE results

applyFilters(data, filters) ==
    FilterContains(
      FilterWordCount(
        FilterMaxLength(
          FilterMinLength(
            FilterPalindrome(data, filters), filters), filters), filters), filters)

-----------------------------------------------------------------------------
(* Regular-expression matching, for the patterns of parseNaturalLanguage.  *)
(* Positions are 1-based; position Len(q) + 1 is the end of the text.      *)

w_palindrome == <<"p", "a", "l", "i", "n", "d", "r", "o", "m", "e">>
w_palindromic == <<"p", "a", "l", "i", "n", "d", "r", "o", "m", "i", "c">>
w_single == <<"s", "i", "n", "g", "l", "e">>
w_one == <<"o", "n", "e">>
w_word == <<"w", "o", "r", "d">>
w_contains == <<"c", "o", "n", "t", "a", "i", "n", "s">>
w_containing == <<"c", "o", "n", "t", "a", "i", "n", "i", "n", "g">>
w_has == <<"h", "a", "s">>
w_with == <<"w", "i", "t", "h">>
w_the == <<"t", "h", "e">>
w_letter == <<"l", "e", "t", "t", "e", "r">>
w_character == <<"c", "h", "a", "r", "a", "c", "t", "e", "r">>
w_first == <<"f", "i", "r", "s", "t">>
w_vowel == <<"v", "o", "w", "e", "l">>
w_longer == <<"l", "o", "n", "g", "e", "r">>
w_greater == <<"g", "r", "e", "a", "t", "e", "r">>
w_shorter == <<"s", "h", "o", "r", "t", "e", "r">>
w_less == <<"l", "e", "s", "s">>
w_than == <<"t", "h", "a", "n">>
w_exactly == <<"e", "x", "a", "c", "t", "l", "y">>
w_of == <<"o", "f">>

\* The text w stands at position i of q.
At(q, i, w) == i >= 1 /\ i + Len(w) - 1 <= Len(q) /\ SubSeq(q, i, i + Len(w) - 1) = w

WordAt(q, i) == i >= 1 /\ i <= Len(q) /\ IsWordChar(q[i])

\* \b just before position i.
Boundary(q, i) == WordAt(q, i - 1) # WordAt(q, i)

\* The first position from i on that holds no white space (what a greedy
\* \s* or \s+ starting at i runs up to).
RECURSIVE SkipSpace(_, _)
SkipSpace(q, i) ==
    IF i <= Len(q) /\ q[i] \in WhiteSpace THEN SkipSpace(q, i + 1) ELSE i

\* The first position from i on that holds no digit (what a greedy \d+
\* starting at i runs up to).
RECURSIVE SkipDigits(_, _)
SkipDigits(q, i) ==
    IF i <= Len(q) /\ IsDigit(q[i]) THEN SkipDigits(q, i + 1) ELSE i

\* parseInt(m[k], 10) of a captured run of digits q[i..j-1].
Captured(q, i, j) == ParseInt(JsString(SubSeq(q, i, j - 1))).n

\* The smallest position of a non-empty set of positions.
Leftmost(S) == CHOOSE i \in S : \A j \in S : i <= j

\* A regular expression matches at the leftmost position where it can.  Of
\* the matches M, a set of <<position, capture>> pairs: {} when there is
\* none (match returns null), else {the capture of the leftmost one}.
LeftmostMatch(M) ==
    IF M = {} THEN {}
    ELSE {(CHOOSE m \in M : \A other \in M : m[1] <= other[1])[2]}

\* /\b(k1|k2)\s+than\s+(\d+)\b/ tried at position i: {} when it does not
\* match there, else {the number captured}.  The greedy \d+ takes the whole
\* run of digits, and no shorter run ends at a \b.
ThanMatchAt(q, i, keywords) ==
    IF (\E k \in keywords : At(q, i, k)) /\ Boundary(q, i)
    THEN LET k  == CHOOSE k \in keywords : At(q, i, k)
             a  == i + Len(k)
             b  == SkipSpace(q, a)
             c  == b + Len(w_than)
             d  == SkipSpace(q, c)
             e  == SkipDigits(q, d)
         IN  IF b > a /\ At(q, b, w_than) /\ d > c /\ e > d /\ Boundary(q, e)
             THEN {Captured(q, d, e)} ELSE {}
    ELSE {}

\* q.match(/\b(k1|k2)\s+than\s+(\d+)\b/): {} for null, else {the number}.
ThanMatch(q, keywords) ==
    LeftmostMatch(UNION {{i} \X ThanMatchAt(q, i, keywords) : i \in 1..Len(q)})

\* ExactlyMatchAt without the alternative "of".
ExactlyMatchAtNoOf(q, i) ==
    IF At(q, i, w_exactly) /\ Boundary(q, i)
    THEN LET a  == i + Len(w_exactly)
             b  == SkipSpace(q, a)
             c  == SkipDigits(q, b)
             d  == SkipSpace(q, c)
             e  == d + Len(w_character)
         IN  IF /\ b > a /\ c > b /\ d > c /\ At(q, d, w_character)
                /\ \/ At(q, e, <<"s">>) /\ Boundary(q, e + 1)
                   \/ Boundary(q, e)
             THEN {Captured(q, b, c)} ELSE {}
    ELSE {}

\* /\b(?:exactly|of)\s+(\d+)\s+characters?\b/ tried at position i.
ExactlyMatchAt(q, i) ==
    IF (\E k \in {w_exactly, w_of} : At(q, i, k)) /\ Boundary(q, i)
    THEN LET k  == CHOOSE k \in {w_exactly, w_of} : At(q, i, k)
             a  == i + Len(k)
             b  == SkipSpace(q, a)
             c  == SkipDigits(q, b)
             d  == SkipSpace(q, c)
             e  == d + Len(w_character)
         IN  IF /\ b > a /\ c > b /\ d > c /\ At(q, d, w_character)
                /\ \/ At(q, e, <<"s">>) /\ Boundary(q, e + 1)
                   \/ Boundary(q, e)
             THEN {Captured(q, b, c)} ELSE {}
    ELSE {}

\* q.match(/\b(?:exactly|of)\s+(\d+)\s+characters?\b/)
ExactlyMatch(q) ==
    LeftmostMatch(UNION {{i} \X ExactlyMatchAt(q, i) : i \in 1..Len(q)})

\* /\bpalindrome|palindromic\b/.test(q): the alternation binds loosest, so
\* this is \bpalindrome or palindromic\b.
PalindromeTest(q) ==
    \E i \in 1..Len(q) :
        \/ At(q, i, w_palindrome) /\ Boundary(q, i)
        \/ At(q, i, w_palindromic) /\ Boundary(q, i + Len(w_palindromic))

\* /\b(k1|k2)\s+w\b/.test(q)
TwoWordTest(q, firsts, w) ==
    \E i \in 1..Len(q) : \E k \in firsts :
        /\ At(q, i, k) /\ Boundary(q, i)
        /\ LET a == i + Len(k)
               b == SkipSpace(q, a)
           IN  b > a /\ At(q, b, w) /\ Boundary(q, b + Len(w))

\* /(?:contains|containing|has|with)\s+(?:the\s+)?(?:letter|character)\s*([a-z0-9])/
\* tried at position i: {} or {the character captured}.
ContainsMatchAt(q, i) ==
    LET verbs == {w_contains, w_containing, w_has, w_with}
        nouns == {w_letter, w_character}
    IN  IF \E k \in verbs : At(q, i, k) /\ SkipSpace(q, i + Len(k)) > i + Len(k)
        THEN LET k == CHOOSE k \in verbs :
                          At(q, i, k) /\ SkipSpace(q, i + Len(k)) > i + Len(k)
                 a == SkipSpace(q, i + Len(k))
                 t == SkipSpace(q, a + Len(w_the))
                 b == IF At(q, a, w_the) /\ t > a + Len(w_the) THEN t ELSE a
             IN  IF \E n \in nouns : At(q, b, n)
                 THEN LET n == CHOOSE n \in nouns : At(q, b, n)
                          c == SkipSpace(q, b + Len(n))
                      IN  IF c <= Len(q) /\ IsLowerAlnum(q[c]) THEN {q[c]} ELSE {}
                 ELSE {}
        ELSE {}

ContainsMatch(q) ==
    LeftmostMatch(UNION {{i} \X ContainsMatchAt(q, i) : i \in 1..Len(q)})

-----------------------------------------------------------------------------
(* parseNaturalLanguage *)

\* What the parser returns: {error: ...} or the filters object.
ParseError == [error |-> TRUE, filters |-> NoFilters]

ParseOk(filters) == [error |-> FALSE, filters |-> filters]

\* The conflict check both variants end with (app.js:99-102, 417-423).
ConflictCheck(filters) ==
    IF /\ Defined(filters.min_length)
       /\ Defined(filters.max_length)
       /\ ValueOf(filters.min_length).n > ValueOf(filters.max_length).n
    THEN ParseError
    ELSE ParseOk(filters)

(* The digest-keyed variant, app.js:63-105 *)

\* /contains the letter (\w)|contains character (\w)|has the letter (\w)|with character (\w)/
\* tried at position i: {} for no match, else {<<alternative, character>>}.
HashContainsMatchAt(q, i) ==
    LET alts == << w_contains \o <<" ">> \o w_the \o <<" ">> \o w_letter \o <<" ">>,
                   w_contains \o <<" ">> \o w_character \o <<" ">>,
                   w_has \o <<" ">> \o w_the \o <<" ">> \o w_letter \o <<" ">>,
                   w_with \o <<" ">> \o w_character \o <<" ">> >>
        hits == {a \in 1..Len(alts) : At(q, i, alts[a]) /\ WordAt(q, i + Len(alts[a]))}
    IN  IF hits = {} THEN {}
        ELSE LET a == Leftmost(hits) IN {<<a, q[i + Len(alts[a])]>>}

\* containsMatch && containsMatch[1]: group 1 belongs to the first
\* alternative; it is undefined when another alternative matched.
HashContains(q) ==
    {JsString(<<m[2]>>) :
        m \in {x \in LeftmostMatch(UNION {{i} \X HashContainsMatchAt(q, i) : i \in 1..Len(q)}) :
                  x[1] = 1}}

\* /(longer|shorter|greater|less) than (\d+)/ tried at position i:
\* {} or {<<type, number>>}.
HashLengthMatchAt(q, i) ==
    LET types == {w_longer, w_shorter, w_greater, w_less}
    IN  IF \E k \in types : At(q, i, k \o <<" ">> \o w_than \o <<" ">>)
        THEN LET k == CHOOSE k \in types : At(q, i, k \o <<" ">> \o w_than \o <<" ">>)
                 d == i + Len(k) + Len(w_than) + 2
                 e == SkipDigits(q, d)
             IN  IF e > d THEN {<<k, Captured(q, d, e)>>} ELSE {}
        ELSE {}

HashLengthMatch(q) ==
    LeftmostMatch(UNION {{i} \X HashLengthMatchAt(q, i) : i \in 1..Len(q)})

\* The filters object is built property by property; for each property
\* the last assignment the code reaches is the one that stays.
parseNaturalLanguageHash(query) ==
    LET q == ToLowerCase(query)
        lengthMatch == HashLengthMatch(q)
    IN  ConflictCheck(
          [ is_palindrome |->
              IF Includes(q, w_palindrome) \/ Includes(q, w_palindromic)
              THEN {JsBoolean(TRUE)} ELSE {},
            word_count |->
              IF Includes(q, w_single \o <<" ">> \o w_word)
              THEN {JsNumber(1)} ELSE {},
            contains_character |-> HashContains(q),
            min_length |->
              {JsNumber(m[2] + 1) : m \in {x \in lengthMatch : x[1] \in {w_longer, w_greater}}},
            max_length |->
              {JsNumber(m[2] - 1) : m \in {x \in lengthMatch : x[1] \in {w_shorter, w_less}}} ])

(* The value-keyed variant, app.js:365-426 *)

parseNaturalLanguageValue(queryRaw) ==
    LET q == Trim(ToLowerCase(queryRaw))
        containsChar == ContainsMatch(q)
        longer  == ThanMatch(q, {w_longer, w_greater})
        shorter == ThanMatch(q, {w_shorter, w_less})
        exactly == ExactlyMatch(q)
    IN  IF q = <<>> THEN ParseOk(NoFilters)
        ELSE ConflictCheck(
          [ is_palindrome |->
              IF PalindromeTest(q) THEN {JsBoolean(TRUE)} ELSE {},
            word_count |->
              IF TwoWordTest(q, {w_single, w_one}, w_word) THEN {JsNumber(1)} ELSE {},
            contains_character |->
              IF TwoWordTest(q, {w_first}, w_vowel) THEN {JsString(<<"a">>)}
              ELSE {JsString(<<c>>) : c \in containsChar},
            min_length |->
              IF exactly # {} THEN {JsNumber(n) : n \in exactly}
              ELSE {JsNumber(n + 1) : n \in longer},
            max_length |->
              IF exactly # {} THEN {JsNumber(n) : n \in exactly}
              ELSE {JsNumber(n - 1) : n \in shorter} ])

parseNaturalLanguage(v, query) ==
    IF v = "hash" THEN parseNaturalLanguageHash(query)
    ELSE parseNaturalLanguageValue(query)

-----------------------------------------------------------------------------
(* Requests the model sends *)

\* Largest value of the clock that new Date() reads.
MaxClock == 1

Variants == {"hash", "value"}

s_Hello == <<"H", "e", "l", "l", "o">>
s_Hello_padded == <<" ", "H", "e", "l", "l", "o", " ">>
s_7 == <<"7">>
s_emoji_a == <<"U+1F600", " ", "a">>
s_blank == <<" ", " ">>
s_constructor == <<"c", "o", "n", "s", "t", "r", "u", "c", "t", "o", "r">>
s_filter_by_natural_language == <<"f", "i", "l", "t", "e", "r", "-", "b", "y", "-", "n", "a", "t", "u", "r", "a", "l", "-", "l", "a", "n", "g", "u", "a", "g", "e">>

\* req.body.value: absent, not a string (a number, null, an object), or a
\* string.
BodyUndefined == [kind |-> "undefined", s |-> <<>>]
BodyOther == [kind |-> "other", s |-> <<>>]
BodyString(s) == [kind |-> "string", s |-> s]

CreateStrings ==
    {s_Hello, s_Hello_padded, s_7, s_emoji_a, s_blank, s_constructor}

Bodies == {BodyUndefined, BodyOther} \cup {BodyString(s) : s \in CreateStrings}

\* The :hash / :value path parameter of GET and DELETE.
PathParams ==
    {s_Hello, s_7, s_emoji_a, s_constructor, Sha256Hex(s_Hello), Sha256Hex(s_7)}

Q(ip, mn, mx, wc, cc) ==
    [ is_palindrome |-> {JsString(x) : x \in ip},
      min_length |-> {JsString(x) : x \in mn},
      max_length |-> {JsString(x) : x \in mx},
      word_count |-> {JsString(x) : x \in wc},
      contains_character |-> {JsString(x) : x \in cc} ]

\* req.query of GET /strings.
q_min3_words1 == Q({}, {<<"3">>}, {}, {<<"1">>}, {})
q_min6 == Q({}, {<<"6">>}, {}, {}, {})

ListQueries ==
    { NoFilters,
      Q({w_true}, {}, {}, {}, {}),
      Q({<<"F", "A", "L", "S", "E">>}, {}, {}, {}, {}),
      Q({<<"y", "e", "s">>}, {}, {}, {}, {}),
      q_min3_words1,
      q_min6,
      Q({}, {}, {<<"2">>}, {}, {}),
      Q({}, {<<"a", "b", "c">>}, {}, {}, {}),
      Q({}, {}, {}, {<<"2">>}, {}),
      Q({}, {}, {}, {}, {<<"H">>}),
      Q({}, {}, {<<"3", "x">>}, {}, {<<>>}),
      Q({w_false}, {<<"2">>}, {<<"5">>}, {<<"1">>}, {<<"l">>}) }

\* req.query.query of GET /strings/filter-by-natural-language: {} when the
\* parameter is absent.
t_conflict ==
    <<"s", "t", "r", "i", "n", "g", "s", " ", "l", "o", "n", "g", "e", "r", " ", "t", "h", "a", "n", " ", "2", "0", " ", "b", "u", "t", " ", "s", "h", "o", "r", "t", "e", "r", " ", "t", "h", "a", "n", " ", "5">>
t_five_characters ==
    <<"s", "t", "r", "i", "n", "g", "s", " ", "w", "i", "t", "h", " ", "5", " ", "c", "h", "a", "r", "a", "c", "t", "e", "r", "s">>

NaturalQueries ==
    { {}, {s_blank}, {s_Hello}, {t_conflict}, {t_five_characters},
      {<<"A", "l", "l", " ", "s", "i", "n", "g", "l", "e", " ", "w", "o", "r", "d", " ", "p", "a", "l", "i", "n", "d", "r", "o", "m", "i", "c", " ", "s", "t", "r", "i", "n", "g", "s">>},
      {<<"s", "t", "r", "i", "n", "g", "s", " ", "c", "o", "n", "t", "a", "i", "n", "i", "n", "g", " ", "t", "h", "e", " ", "l", "e", "t", "t", "e", "r", " ", "h">>},
      {<<"s", "t", "r", "i", "n", "g", "s", " ", "o", "f", " ", "5", " ", "c", "h", "a", "r", "a", "c", "t", "e", "r", "s">>},
      {<<"l", "o", "n", "g", "e", "r", " ", "t", "h", "a", "n", " ", "2">>} }

-----------------------------------------------------------------------------
\* parseNaturalLanguage over the query texts the requests carry, computed
\* once.
Parsed ==
    [v \in Variants |-> [q \in UNION NaturalQueries |-> parseNaturalLanguage(v, q)]]

-----------------------------------------------------------------------------
(* The handlers.  Every handler is synchronous: it runs from its first     *)
(* line to the response without yielding, so each is one step.             *)

Response(op, input, status, error, data, parsed) ==
    [ op |-> op, input |-> input, status |-> status, error |-> error,
      data |-> data, parsed |-> parsed ]

NoResponse == Response("none", <<>>, 0, "", <<>>, NoFilters)

\* StoreKey with the time of the analysis mixed into the key.
StoreKeySalted(v, analysisResult, trimmedValue) ==
    (IF v = "hash" THEN analysisResult.id ELSE trimmedValue)
        \o <<"@">> \o NatToString(analysisResult.created_at)

\* The key a record is stored under: its digest (app.js:180-185) or its
\* trimmed value (app.js:508-516).
StoreKey(v, analysisResult, trimmedValue) ==
    IF v = "hash" THEN analysisResult.id ELSE trimmedValue

\* StoreOrConflict storing the record before it looks for an existing one.
StoreOrConflictStoreFirst(body, key, analysisResult) ==
    /\ stringStore' = Assign(stringStore, key, analysisResult)
    /\ resp' = IF Truthy(stringStore, key)
               THEN Response("post", body, 409, "Duplicate", <<>>, NoFilters)
               ELSE Response("post", body, 201, "", <<analysisResult>>, NoFilters)

\* StoreOrConflict looking for an existing record under the key of the
\* value as sent, before trimming.
StoreOrConflictRawCheck(body, key, analysisResult) ==
    IF Truthy(stringStore, StoreKey(variant, analyzeString(body.s, clock), body.s))
    THEN /\ resp' = Response("post", body, 409, "Duplicate", <<>>, NoFilters)
         /\ UNCHANGED stringStore
    ELSE /\ stringStore' = Assign(stringStore, key, analysisResult)
         /\ resp' = Response("post", body, 201, "", <<analysisResult>>, NoFilters)

\* StoreOrConflict without the existence check: a create of a stored value
\* replaces the record.
StoreOrConflictUpsert(body, key, analysisResult) ==
    /\ stringStore' = Assign(stringStore, key, analysisResult)
    /\ resp' = Response("post", body, 201, "", <<analysisResult>>, NoFilters)

\* The end of the create handler, app.js:179-188 and 506-519: 409 when
\* stringStore[key] is truthy, else the record is stored and returned.
StoreOrConflict(body, key, analysisResult) ==
    IF Truthy(stringStore, key)
    THEN /\ resp' = Response("post", body, 409, "Duplicate", <<>>, NoFilters)
         /\ UNCHANGED stringStore
    ELSE /\ stringStore' = Assign(stringStore, key, analysisResult)
         /\ resp' = Response("post", body, 201, "", <<analysisResult>>, NoFilters)

\* app.post('/strings'), app.js:158-189 and 479-520
PostStrings(body) ==
    LET value          == body
        trimmedValue   == Trim(value.s)
        analysisResult == analyzeString(trimmedValue, clock)
        key            == StoreKey(variant, analysisResult, trimmedValue)
    IN  /\ UNCHANGED <<variant, clock>>
        /\ IF value.kind = "undefined"
           THEN /\ resp' = Response("post", body, 400, "MissingField", <<>>, NoFilters)
                /\ UNCHANGED stringStore
           ELSE IF value.kind # "string"
           THEN /\ resp' = Response("post", body, 422, "WrongType", <<>>, NoFilters)
                /\ UNCHANGED stringStore
           ELSE IF StrLength(trimmedValue) = 0
           THEN /\ resp' = Response("post", body, 422, "EmptyValue", <<>>, NoFilters)
                /\ UNCHANGED stringStore
           ELSE StoreOrConflict(body, key, analysisResult)

\* The handler of app.get('/strings/:hash') and app.get('/strings/:value'),
\* app.js:193-204 and 564-583.  An inherited property is truthy too: the
\* handler then answers 200 with no record in the body.
GetStringHandler(param) ==
    /\ UNCHANGED <<variant, clock, stringStore>>
    /\ IF ~Truthy(stringStore, param)
       THEN resp' = Response("get", param, 404, "NotFound", <<>>, NoFilters)
       ELSE resp' = Response("get", param, 200, "",
                        IF HasOwn(stringStore, param)
                        THEN <<stringStore[IndexOf(stringStore, param)][2]>>
                        ELSE <<>>,
                        NoFilters)

\* isInvalidInt, app.js:218 and 608
isInvalidInt(val) == Defined(val) /\ ParseInt(ValueOf(val)).nan

\* app.get('/strings'), app.js:207-233 and 586-630
GetStrings(query) ==
    LET availableData == ObjectValues(stringStore)
        filteredData  == applyFilters(availableData, query)
    IN  /\ UNCHANGED <<variant, clock, stringStore>>
        /\ IF /\ Defined(query.is_palindrome)
              /\ ToLowerCase(StringOf(ValueOf(query.is_palindrome))) \notin {w_true, w_false}
           THEN resp' = Response("list", query, 400, "InvalidFilterValue", <<>>, NoFilters)
           ELSE IF \/ isInvalidInt(query.min_length)
                   \/ isInvalidInt(query.max_length)
                   \/ isInvalidInt(query.word_count)
           THEN resp' = Response("list", query, 400, "InvalidFilterValue", <<>>, NoFilters)
           ELSE resp' = Response("list", query, 200, "", filteredData, query)

\* The handler of app.get("/strings/filter-by-natural-language") of the
\* value-keyed variant, app.js:523-560.
NaturalLanguageHandler(query) ==
    LET q             == query
        parsedFilters == Parsed[variant][ValueOf(q)]
        availableData == ObjectValues(stringStore)
        filteredData  == applyFilters(availableData, parsedFilters.filters)
    IN  /\ UNCHANGED <<variant, clock, stringStore>>
        /\ IF q = {} \/ Trim(ValueOf(q)) = <<>>
           THEN resp' = Response("nl", q, 400, "MissingQuery", <<>>, NoFilters)
           ELSE IF parsedFilters.error
           THEN resp' = Response("nl", q, 422, "ConflictingFilters", <<>>, NoFilters)
           ELSE IF KeyCount(parsedFilters.filters) = 0
           THEN resp' = Response("nl", q, 400, "UnparsableQuery", <<>>, NoFilters)
           ELSE resp' = Response("nl", q, 200, "", filteredData, parsedFilters.filters)

\* app.delete('/strings/:hash') and app.delete("/strings/:value"),
\* app.js:276-289 and 634-651
DeleteString(param) ==
    /\ UNCHANGED <<variant, clock>>
    /\ IF ~Truthy(stringStore, param)
       THEN /\ resp' = Response("delete", param, 404, "NotFound", <<>>, NoFilters)
            /\ UNCHANGED stringStore
       ELSE /\ stringStore' = DeleteKey(stringStore, param)
            /\ resp' = Response("delete", param, 204, "", <<>>, NoFilters)

\* GET /strings/<param>
GetString(param) == GetStringHandler(param)

\* GET /strings/filter-by-natural-language[?query=...].  Express tries the
\* routes in the order they were registered.  The digest-keyed variant
\* registers '/strings/:hash' (app.js:193) before
\* '/strings/filter-by-natural-language' (app.js:236), so there the request
\* is a fetch of the key "filter-by-natural-language"; the value-keyed
\* variant registers the natural-language route first (app.js:523, 564).
GetFilterByNaturalLanguage(query) ==
    IF variant = "hash"
    THEN GetStringHandler(s_filter_by_natural_language)
    ELSE NaturalLanguageHandler(query)

\* Time passes: new Date() reads a later value.
Tick ==
    /\ clock < MaxClock
    /\ clock' = clock + 1
    /\ UNCHANGED <<variant, stringStore, resp>>

Init ==
    /\ variant \in Variants
    /\ stringStore = <<>>
    /\ clock = 0
    /\ resp = NoResponse

Next ==
    \/ \E body \in Bodies : PostStrings(body)
    \/ \E param \in PathParams : GetString(param)
    \/ \E query \in ListQueries : GetStrings(query)
    \/ \E query \in NaturalQueries : GetFilterByNaturalLanguage(query)
    \/ \E param \in PathParams : DeleteString(param)
    \/ Tick

Spec == Init /\ [][Next]_vars

-----------------------------------------------------------------------------
(* The query interpreter on its own: parseNaturalLanguage of either        *)
(* variant applied to a query text.  The texts are built from phrases.     *)

\* Largest number of phrases in a query text.
MaxPhrases == 2

p_longer_20 == <<"s", "t", "r", "i", "n", "g", "s", " ", "l", "o", "n", "g", "e", "r", " ", "t", "h", "a", "n", " ", "2", "0">>
p_shorter_5 == <<"b", "u", "t", " ", "s", "h", "o", "r", "t", "e", "r", " ", "t", "h", "a", "n", " ", "5">>
p_less_30 == <<"l", "e", "s", "s", " ", "t", "h", "a", "n", " ", "3", "0">>
p_exactly_4 == <<"E", "x", "a", "c", "t", "l", "y", " ", "4", " ", "c", "h", "a", "r", "a", "c", "t", "e", "r", "s">>
p_of_30 == <<"o", "f", " ", "3", "0", " ", "c", "h", "a", "r", "a", "c", "t", "e", "r">>
p_with_5 == <<"w", "i", "t", "h", " ", "5", " ", "c", "h", "a", "r", "a", "c", "t", "e", "r", "s">>
p_single_word == <<"s", "i", "n", "g", "l", "e", " ", "w", "o", "r", "d", " ", "p", "a", "l", "i", "n", "d", "r", "o", "m", "e", "s">>
p_has_z == <<"h", "a", "s", " ", "t", "h", "e", " ", "l", "e", "t", "t", "e", "r", " ", "z">>

Phrases ==
    { p_longer_20, p_shorter_5, p_less_30, p_exactly_4, p_of_30, p_with_5,
      p_single_word, p_has_z }

\* The texts of n phrases, separated by one space.
RECURSIVE PhraseTexts(_)
PhraseTexts(n) ==
    IF n = 1 THEN Phrases
    ELSE {t \o <<" ">> \o ph : t \in PhraseTexts(n - 1), ph \in Phrases}

ParserQueries == UNION {PhraseTexts(n) : n \in 1..MaxPhrases}

\* interpret(freeText): the text is given, nothing is computed yet.
InitParser ==
    /\ variant \in Variants
    /\ stringStore = <<>>
    /\ clock = 0
    /\ resp \in {Response("interpret", q, 0, "", <<>>, NoFilters) : q \in ParserQueries}

\* The call of parseNaturalLanguage and its three outcomes: the conflict
\* error, the empty object, a filters object.
Interpret ==
    /\ resp.op = "interpret"
    /\ LET parsedFilters == parseNaturalLanguage(variant, resp.input)
       IN  resp' = Response("interpreted", resp.input, 0,
                       IF parsedFilters.error THEN "ConflictError"
                       ELSE IF KeyCount(parsedFilters.filters) = 0 THEN "Empty"
                       ELSE "",
                       <<>>, parsedFilters.filters)
    /\ UNCHANGED <<variant, stringStore, clock>>

NextParser == Interpret

ParserSpec == InitParser /\ [][NextParser]_vars

-----------------------------------------------------------------------------
(* The analysis on its own: analyzeString of either variant applied to a   *)
(* string.  The strings are all the sequences, up to a length, of a few    *)
(* characters: letters of both cases, a digit, a letter outside ASCII that *)
(* lower-cases into ASCII, punctuation, white space and a character        *)
(* outside the BMP.                                                        *)

\* Largest number of characters of an analysed string.
MaxLen == 3

AnalyzerChars == {"a", "A", "k", "1", "!", " ", "U+212A", "U+1F600"}

RECURSIVE StringsOfLength(_)
StringsOfLength(n) ==
    IF n = 0 THEN {<<>>}
    ELSE {Append(s, c) : s \in StringsOfLength(n - 1), c \in AnalyzerChars}

AnalyzerStrings == UNION {StringsOfLength(n) : n \in 0..MaxLen}

\* analyze(s): the string is given, nothing is computed yet.
InitAnalyzer ==
    /\ variant \in Variants
    /\ stringStore = <<>>
    /\ clock = 0
    /\ resp \in {Response("analyze", s, 0, "", <<>>, NoFilters) : s \in AnalyzerStrings}

\* The call of analyzeString; the record it returns is the data.
Analyze ==
    /\ resp.op = "analyze"
    /\ resp' = Response("analyzed", resp.input, 0, "",
                        <<analyzeString(resp.input, clock)>>, NoFilters)
    /\ UNCHANGED <<variant, stringStore, clock>>

NextAnalyzer == Analyze

AnalyzerSpec == InitAnalyzer /\ [][NextAnalyzer]_vars

-----------------------------------------------------------------------------
(* Properties of the store.  A step that leaves the clock alone and        *)
(* changes the state is the handling of one request, and resp' is its      *)
(* response.                                                               *)

Records == {stringStore[i][2] : i \in 1..Len(stringStore)}

Stored(value) == \E r \in Records : r.value = value

\* C1: in every reachable state no two stored records have the same value
\* (at most one record per distinct trimmed string).
C1_OneRecordPerValue ==
    \A i, j \in 1..Len(stringStore) :
        i # j => stringStore[i][2].value # stringStore[j][2].value

\* Three different values are stored, the last one by a request whose value
\* had white space around it.
C1_Witness ==
    /\ Len(stringStore) = 3
    /\ resp.op = "post" /\ resp.status = 201
    /\ resp.input = BodyString(s_Hello_padded)

\* C2: a create request whose value is a string, non-empty once trimmed,
\* fails with Duplicate if and only if a record with the trimmed value is
\* stored at that moment; otherwise it stores the record and returns it.
C2_DuplicateIffStored ==
    [][ (clock' = clock /\ resp'.op = "post" /\ resp'.input.kind = "string"
            /\ Trim(resp'.input.s) # <<>>)
        => IF Stored(Trim(resp'.input.s))
           THEN resp'.error = "Duplicate"
           ELSE /\ resp'.status = 201
                /\ Len(resp'.data) = 1
                /\ resp'.data[1].value = Trim(resp'.input.s)
                /\ \E i \in 1..Len(stringStore') : stringStore'[i][2] = resp'.data[1]
      ]_vars

\* C3: after delete(key) succeeds, get(key) yields NotFound (until a create
\* stores a record under the key again); delete(key) of a key that is not
\* in the store fails with NotFound.
C3_DeleteThenGet ==
    [][ clock' = clock =>
        /\ (resp.op = "delete" /\ resp.status = 204
                /\ resp'.op = "get" /\ resp'.input = resp.input)
           => resp'.error = "NotFound"
        /\ (resp'.op = "delete" /\ ~HasOwn(stringStore, resp'.input))
           => resp'.error = "NotFound"
      ]_vars

ErrorKinds ==
    { "MissingField", "WrongType", "EmptyValue", "Duplicate", "NotFound",
      "InvalidFilterValue", "ConflictingFilters", "UnparsableQuery", "MissingQuery" }

\* C4: a request that ends in an error leaves the store exactly as it was;
\* every response is a success or one of the nine error kinds.
C4_ErrorsLeaveStore ==
    [][ /\ resp'.error \in ErrorKinds \cup {""}
        /\ resp'.error # "" /\ clock' = clock => stringStore' = stringStore
      ]_vars

\* Every error kind but one of the value-keyed variant's has been answered
\* with records in the store: here the conflicting query.
C4_Witness ==
    /\ Len(stringStore) = 2
    /\ resp.error = "ConflictingFilters"

\* C5: the existence check and the insertion of a create are one step, so
\* in whatever order requests are handled a create succeeds only when no
\* record with its trimmed value is stored, and a create never replaces the
\* record stored under its trimmed value.
C5_CreateAtomic ==
    [][ (clock' = clock /\ resp'.op = "post" /\ resp'.input.kind = "string") =>
        /\ resp'.status = 201 => ~Stored(Trim(resp'.input.s))
        /\ \A r \in Records :
               r.value = Trim(resp'.input.s)
               => \E i \in 1..Len(stringStore') : stringStore'[i][2] = r
      ]_vars

\* The second of two creates of the same trimmed value, at a later time
\* than the first, was answered Duplicate.
C5_Witness ==
    /\ resp.op = "post" /\ resp.error = "Duplicate"
    /\ resp.input = BodyString(s_Hello_padded)
    /\ \E r \in Records : r.value = s_Hello /\ r.created_at < clock

\* C6: a stored record stays in the store as it is (value, properties,
\* identifier, created_at) through every step but a successful delete of
\* its own key.
C6_RecordsImmutable ==
    [][ \A i \in 1..Len(stringStore) :
          \/ /\ clock' = clock
             /\ resp'.op = "delete" /\ resp'.status = 204
             /\ resp'.input = stringStore[i][1]
          \/ \E j \in 1..Len(stringStore') : stringStore'[j] = stringStore[i]
      ]_vars

\* A record created at time 0 is still stored at a later time, after another
\* record was deleted.
C6_Witness ==
    /\ resp.op = "delete" /\ resp.status = 204
    /\ \E r \in Records : r.created_at < clock
    /\ HasOwn(stringStore, resp.input) = FALSE
    /\ Len(stringStore) = 2

-----------------------------------------------------------------------------
(* Properties of the analysis and of the filters *)

RECURSIVE SumOver(_, _)
SumOver(m, keys) ==
    IF keys = {} THEN 0
    ELSE LET k == CHOOSE x \in keys : TRUE
         IN  m[k] + SumOver(m, keys \ {k})

\* C7: for every record analyzeString produced, the counts of
\* character_frequency_map add up to length, and unique_characters is the
\* number of keys of the map.
C7_FrequencySumsToLength ==
    \A r \in Records :
        /\ SumOver(r.properties.character_frequency_map,
                   DOMAIN r.properties.character_frequency_map)
             = r.properties.length
        /\ r.properties.unique_characters
             = Cardinality(DOMAIN r.properties.character_frequency_map)

\* What a filter value stands for once typed.
AsBoolean(x) == ToLowerCase(StringOf(ValueOf(x))) = w_true
AsInteger(x) == ParseInt(ValueOf(x)).n
AsText(x) == StringOf(ValueOf(x))

\* The record satisfies every filter present in the filter set f; an empty
\* contains_character is no filter.
Satisfies(item, f) ==
    /\ Defined(f.is_palindrome) => item.properties.is_palindrome = AsBoolean(f.is_palindrome)
    /\ Defined(f.min_length) => item.properties.length >= AsInteger(f.min_length)
    /\ Defined(f.max_length) => item.properties.length <= AsInteger(f.max_length)
    /\ Defined(f.word_count) => item.properties.word_count = AsInteger(f.word_count)
    /\ (Defined(f.contains_character) /\ AsText(f.contains_character) # <<>>)
       => \E i \in 1..(Len(item.value) - Len(AsText(f.contains_character)) + 1) :
            \A k \in 1..Len(AsText(f.contains_character)) :
               ToLowerChar(item.value[i + k - 1]) = ToLowerChar(AsText(f.contains_character)[k])

\* The subsequence of records, in their order, that satisfy f.
RECURSIVE Kept(_, _)
Kept(records, f) ==
    IF records = <<>> THEN <<>>
    ELSE (IF Satisfies(Head(records), f) THEN <<Head(records)>> ELSE <<>>)
             \o Kept(Tail(records), f)

\* C8: the records a listing or a natural-language query returns are the
\* stored records, in their order, that satisfy every filter present; a
\* record of length 5 and word_count 1 is kept under {min_length: 3,
\* word_count: 1} and excluded under {min_length: 6}.
C8_FiltersSelect ==
    (resp.op \in {"list", "nl"} /\ resp.status = 200) =>
        /\ resp.data = Kept(ObjectValues(stringStore), resp.parsed)
        /\ \A r \in Records :
              (r.properties.length = 5 /\ r.properties.word_count = 1) =>
                 /\ resp.parsed = q_min3_words1 => r \in Range(resp.data)
                 /\ resp.parsed = q_min6 => r \notin Range(resp.data)

\* Under {min_length: 3, word_count: 1} the record of length 5 is returned
\* and another stored record is not.
C8_Witness ==
    /\ resp.op = "list" /\ resp.status = 200 /\ resp.parsed = q_min3_words1
    /\ \E r \in Range(resp.data) : r.properties.length = 5 /\ r.properties.word_count = 1
    /\ Len(resp.data) < Len(stringStore)

-----------------------------------------------------------------------------
(* Properties of the interpreter (ParserSpec) *)

t_longer_20 == <<"l", "o", "n", "g", "e", "r", " ", "t", "h", "a", "n", " ", "2", "0">>
t_shorter_5 == <<"s", "h", "o", "r", "t", "e", "r", " ", "t", "h", "a", "n", " ", "5">>
t_less_30 == <<"l", "e", "s", "s", " ", "t", "h", "a", "n", " ", "3", "0">>
t_exactly_4_characters == <<"e", "x", "a", "c", "t", "l", "y", " ", "4", " ", "c", "h", "a", "r", "a", "c", "t", "e", "r", "s">>
t_of_30_character == <<"o", "f", " ", "3", "0", " ", "c", "h", "a", "r", "a", "c", "t", "e", "r">>
t_5_characters == <<"5", " ", "c", "h", "a", "r", "a", "c", "t", "e", "r", "s">>

Interpreted == resp.op = "interpreted"

QueryText == ToLowerCase(resp.input)

Returned(name, n) == resp.error = "" /\ resp.parsed[name] = {JsNumber(n)}

\* C9: a query with "longer than 20" and "shorter than 5" gets
\* min_length = 21 and max_length = 4 and so ConflictError, one with
\* "longer than 20" and "less than 30" (and no "shorter than 5") gets
\* min_length = 21 and max_length = 29; no FilterSet returned has
\* min_length > max_length.
C9_IndependentRulesConflict ==
    Interpreted =>
        /\ (Includes(QueryText, t_longer_20) /\ Includes(QueryText, t_shorter_5))
           => resp.error = "ConflictError"
        /\ (Includes(QueryText, t_longer_20) /\ Includes(QueryText, t_less_30)
                /\ ~Includes(QueryText, t_shorter_5))
           => Returned("min_length", 21) /\ Returned("max_length", 29)
        /\ (resp.error = "" /\ Defined(resp.parsed.min_length) /\ Defined(resp.parsed.max_length))
           => ValueOf(resp.parsed.min_length).n <= ValueOf(resp.parsed.max_length).n

\* C10 as stated: a query with "exactly 4 characters", or with just
\* "5 characters", gets min_length = max_length = that number.
C10_ExactlyOrBare ==
    Interpreted =>
        /\ Includes(QueryText, t_exactly_4_characters)
           => Returned("min_length", 4) /\ Returned("max_length", 4)
        /\ (Includes(QueryText, t_5_characters) /\ ~Includes(QueryText, t_exactly_4_characters))
           => Returned("min_length", 5) /\ Returned("max_length", 5)

\* The positions where one of the phrases "exactly 4 characters" and
\* "of 30 character" stands in the query text, with its number.
ExactPhrasesAt ==
    {<<i, 4>> : i \in {j \in 1..Len(QueryText) : At(QueryText, j, t_exactly_4_characters)}}
    \cup {<<i, 30>> : i \in {j \in 1..Len(QueryText) : At(QueryText, j, t_of_30_character)}}

\* C10 amended: in the value-keyed variant a query with "exactly N
\* characters" or "of N character(s)" gets min_length = max_length = N, N
\* being the number of the leftmost such phrase; "N characters" with
\* neither word before it sets no length filter.
C10_ExactlyOrOf ==
    (Interpreted /\ variant = "value") =>
        /\ \A n \in LeftmostMatch(ExactPhrasesAt) :
              Returned("min_length", n) /\ Returned("max_length", n)
        /\ resp.input = p_with_5
           => ~Defined(resp.parsed.min_length) /\ ~Defined(resp.parsed.max_length)

\* "of 30 character", after another phrase, set both lengths to 30.
C10_Witness ==
    /\ Interpreted /\ variant = "value"
    /\ resp.input = p_has_z \o <<" ">> \o p_of_30
    /\ Returned("min_length", 30) /\ Returned("max_length", 30)

-----------------------------------------------------------------------------
(* Properties of the analysis on its own (AnalyzerSpec) *)

AsciiLowerOrDigit ==
    { "a", "b", "c", "d", "e", "f", "g", "h", "i", "j", "k", "l", "m", "n", "o",
      "p", "q", "r", "s", "t", "u", "v", "w", "x", "y", "z",
      "0", "1", "2", "3", "4", "5", "6", "7", "8", "9" }

\* The lower-cased string without its characters that are no ASCII letter
\* or digit, built from the left.
RECURSIVE Stripped(_)
Stripped(s) ==
    IF s = <<>> THEN <<>>
    ELSE LET c == ToLowerChar(Head(s))
         IN  (IF c \in AsciiLowerOrDigit THEN <<c>> ELSE <<>>) \o Stripped(Tail(s))

ReadsTheSameBackwards(t) == \A i \in 1..Len(t) : t[i] = t[Len(t) + 1 - i]

\* C11: is_palindrome of analyzeString(s) is true if and only if s,
\* lower-cased and without every character that is no ASCII letter or
\* digit, is not empty and equal to its reversal; a string that is empty
\* once stripped is no palindrome.
C11_PalindromeIffStrippedReversal ==
    resp.op = "analyzed" =>
        /\ resp.data[1].properties.is_palindrome
              <=> (Stripped(resp.input) # <<>> /\ ReadsTheSameBackwards(Stripped(resp.input)))
        /\ Stripped(resp.input) = <<>> => ~resp.data[1].properties.is_palindrome

\* The string A, !, a was analysed and is a palindrome.
C11_Witness ==
    /\ resp.op = "analyzed"
    /\ resp.input = <<"A", "!", "a">>
    /\ resp.data[1].properties.is_palindrome

=============================================================================
